---------------------------- MODULE Spec2Model ----------------------------
(***************************************************************************)
(* Model of thrust/system/detail/generic/binary_search.inl: the three      *)
(* search functors (lbf, ubf, bsf), the per-element binary_search_functor, *)
(* the vector implementation detail::binary_search (a for_each over the    *)
(* zip of the queries and the output), the scalar implementation (two      *)
(* one-element temporary arrays around the vector implementation), and the *)
(* public entry points lower_bound, upper_bound, binary_search and         *)
(* equal_range.                                                            *)
(*                                                                         *)
(* The overloads without a comparator forward to the ones modelled here   *)
(* with thrust::less.                                                      *)
(*                                                                         *)
(* Iterators are integer addresses.  Arrays are functions on 0..n-1.       *)
(* An output slot holds <<>> until it is first stored to and <<x>> after.  *)
(***************************************************************************)
EXTENDS Integers, Sequences, FiniteSets, TLC

\* Bounds of the model: the largest element or query value, the longest
\* Sequence of a call of an entry point, the longest Sequence a search
\* functor is applied to on its own, the longest batch of queries, and the
\* address of the Sequence's first element.
MaxVal == 2
MaxLen == 2
MaxSeqLen == 4
MaxQueries == 2
BaseAddr == 3

Values == 0..MaxVal

\* The comparators the model instantiates StrictWeakOrdering with:
\* thrust::less, and a coarser ordering under which distinct values can be
\* equivalent (2k and 2k+1 are).
Comparators == {"less", "less_half"}

StrictWeakOrdering(c, a, b) ==
    CASE c = "less"      -> a < b
      [] c = "less_half" -> (a \div 2) < (b \div 2)

Equivalent(c, a, b) == ~StrictWeakOrdering(c, a, b) /\ ~StrictWeakOrdering(c, b, a)

ArrLen(a) == Cardinality(DOMAIN a)

Arrays(n, T) == [0..(n - 1) -> T]

\* The precondition on the Sequence: no element is ordered before an
\* earlier one.
IsSorted(c, s) ==
    \A i, j \in DOMAIN s : i < j => ~StrictWeakOrdering(c, s[j], s[i])

VARIABLES
    begin,    \* iterator to the first element of the Sequence
    comp,     \* the comparator of the call
    mem,      \* memory: seq, vals, out (caller's), d_value, d_output (temporaries)
    alloc,    \* the temporary arrays currently acquired
    call,     \* the entry point being executed and its arguments
    pc,       \* control position
    fe,       \* the for_each in progress: source and destination buffers, state of each invocation
    ret,      \* <<>> or the value returned by the last frame that returned
    er,       \* equal_range's locals
    acc,      \* access log: per-invocation reads and writes, stores per slot, accesses to released buffers
    ops       \* the results of the search functors applied on their own to one query

vars == <<begin, comp, mem, alloc, call, pc, fe, ret, er, acc, ops>>

end == begin + ArrLen(mem.seq)

\* thrust::detail::backend::dereference on an iterator into the Sequence.
dereference(iter) == mem.seq[iter - begin]

----------------------------------------------------------------------------
\* The single-position search primitives (generic/scalar/binary_search.h).

Least(P) == CHOOSE j \in P : \A k \in P : j <= k

scalar_lower_bound(first, last, value, c) ==
    first + Least({j \in 0..(last - first) :
                      j = last - first
                      \/ ~StrictWeakOrdering(c, dereference(first + j), value)})

scalar_upper_bound(first, last, value, c) ==
    first + Least({j \in 0..(last - first) :
                      j = last - first
                      \/ StrictWeakOrdering(c, value, dereference(first + j))})

\* The iterators a search primitive dereferences: those it tests, up to the
\* one it returns, all inside [first, last).
scalar_reads(first, last, found) == {it \in first..found : it < last}

----------------------------------------------------------------------------
\* The operation variants.

\* A faulty ubf: the upper bound searched for with the lower-bound primitive.
ubf_as_lower_bound(b, e, value, c) == scalar_lower_bound(b, e, value, c) - b

lbf(b, e, value, c) == scalar_lower_bound(b, e, value, c) - b

ubf(b, e, value, c) == scalar_upper_bound(b, e, value, c) - b

\* A faulty bsf: only the bounds test, no test of the element found.
bsf_run_bounds_only(b, e, value, c) ==
    LET iter == scalar_lower_bound(b, e, value, c)
    IN  IF iter # e THEN [r |-> TRUE, d |-> {}] ELSE [r |-> FALSE, d |-> {}]

\* A faulty bsf: the negation of the comparison dropped.
bsf_run_not_negated(b, e, value, c) ==
    LET iter == scalar_lower_bound(b, e, value, c)
    IN  IF iter # e
           THEN [r |-> StrictWeakOrdering(c, value, dereference(iter)), d |-> {iter}]
           ELSE [r |-> FALSE, d |-> {}]

\* A faulty bsf: no iter != end test, so end is dereferenced when the
\* search finds nothing; the storage there happens to hold the value.
bsf_run_unchecked(b, e, value, c) ==
    LET iter == scalar_lower_bound(b, e, value, c)
        elem == IF iter # e THEN dereference(iter) ELSE value
    IN  [r |-> ~StrictWeakOrdering(c, value, elem), d |-> {iter}]

\* bsf's body: r is what it returns, d the iterators it dereferences itself.
\*   iter = lower_bound(begin, end, value, comp);
\*   return iter != end && !comp(value, dereference(iter));
bsf_run(b, e, value, c) ==
    LET iter == scalar_lower_bound(b, e, value, c)
    IN  IF iter # e
           THEN [r |-> ~StrictWeakOrdering(c, value, dereference(iter)), d |-> {iter}]
           ELSE [r |-> FALSE, d |-> {}]

bsf(b, e, value, c) == bsf_run(b, e, value, c).r

bsf_derefs(b, e, value, c) == bsf_run(b, e, value, c).d

Functions == {"lbf", "ubf", "bsf"}

func(f, b, e, value, c) ==
    CASE f = "lbf" -> lbf(b, e, value, c)
      [] f = "ubf" -> ubf(b, e, value, c)
      [] f = "bsf" -> bsf(b, e, value, c)

\* Every iterator a call of func dereferences.
func_reads(f, b, e, value, c) ==
    CASE f = "lbf" -> scalar_reads(b, e, scalar_lower_bound(b, e, value, c))
      [] f = "ubf" -> scalar_reads(b, e, scalar_upper_bound(b, e, value, c))
      [] f = "bsf" -> scalar_reads(b, e, scalar_lower_bound(b, e, value, c))
                        \cup bsf_derefs(b, e, value, c)

----------------------------------------------------------------------------
\* State.

NoCall == [kind |-> "none", f |-> "none", value |-> 0]

NoForEach == [src |-> "none", dst |-> "none", f |-> "none", n |-> 0,
              st |-> <<>>, local |-> <<>>]

NoAccess == [rd |-> <<>>, wr |-> <<>>, stores |-> <<>>, stale |-> FALSE,
             acquired |-> {}, freed |-> {}]

SortedSequences(c, maxlen) ==
    UNION {{s \in Arrays(n, Values) : IsSorted(c, s)} : n \in 0..maxlen}

NoOps == [value |-> 0, lbf |-> <<>>, ubf |-> <<>>, bsf |-> <<>>, derefs |-> {}]

QueryBatches == UNION {Arrays(n, Values) : n \in 0..MaxQueries}

\* The caller's output buffer: one slot per query and one slot past them.
OutputFor(q) == [i \in 0..ArrLen(q) |-> <<>>]

InitWith(maxlen) ==
    /\ begin = BaseAddr
    /\ comp \in Comparators
    /\ \E s \in SortedSequences(comp, maxlen) :
           mem = [seq |-> s, vals |-> <<>>, out |-> <<>>,
                  d_value |-> <<>>, d_output |-> <<>>]
    /\ alloc = {}
    /\ call = NoCall
    /\ pc = "idle"
    /\ fe = NoForEach
    /\ ret = <<>>
    /\ er = [phase |-> 0, lb |-> 0]
    /\ acc = NoAccess
    /\ ops = NoOps

Init == InitWith(MaxLen)

----------------------------------------------------------------------------
\* Vector implementation: detail::binary_search over [values_begin, values_end).

\* A faulty zip: the query iterator is not advanced with the output.
zip_first_query(i) == [get0 |-> 0, get1 |-> i]

\* A faulty zip: the output iterator is one slot ahead of the queries.
zip_off_by_one(i) == [get0 |-> i, get1 |-> i + 1]

\* Element i of the zipped range: (values_begin + i, output + i).
zip(i) == [get0 |-> i, get1 |-> i]

\* thrust::distance(values_begin, values_end)
distance(values) == ArrLen(values)

\* for_each over the zipped range [zip(0), zip(n)) with
\* binary_search_functor(begin, end, comp, f): one invocation per element,
\* none started yet.
for_each_begin(src, dst, f, n) ==
    [src |-> src, dst |-> dst, f |-> f, n |-> n,
     st |-> [i \in 0..(n - 1) |-> "todo"],
     local |-> [i \in 0..(n - 1) |-> <<>>]]

\* A fresh access log for n invocations and an output buffer of cap slots.
access_begin(n, cap) ==
    [acc EXCEPT !.rd = [i \in 0..(n - 1) |-> {}],
                !.wr = [i \in 0..(n - 1) |-> {}],
                !.stores = [k \in 0..(cap - 1) |-> 0]]

\* binary_search_functor::operator(), right-hand side:
\* func(begin, end, thrust::get<0>(t), comp)
functor_eval(t) == func(fe.f, begin, end, mem[fe.src][t.get0], comp)

\* The locations one invocation loads.  thrust::get<0>(t) is handed on as
\* const T& value and is loaded only where comp is called; every call of comp
\* compares value with one dereferenced element, so the query is loaded
\* exactly when some element of the Sequence is.
functor_reads(t) ==
    LET its == func_reads(fe.f, begin, end, mem[fe.src][t.get0], comp)
    IN  (IF its = {} THEN {} ELSE {<<fe.src, t.get0>>})
            \cup {<<"seq", it - begin>> : it \in its}

\* A faulty functor: every invocation stores to the first slot.
functor_target_first(t) == 0

\* The slot of the destination that thrust::get<1>(t) refers to.
functor_target(t) == t.get1

\* binary_search_functor::operator(), the assignment to thrust::get<1>(t).
functor_store(t, x) == [mem EXCEPT ![fe.dst][functor_target(t)] = <<x>>]

\* thrust::for_each invokes the functor once on every element of the range,
\* in no particular order and possibly concurrently: any element not yet
\* invoked may be next, and for_each returns when every invocation is over.
for_each_ready(i) == i \in DOMAIN fe.st /\ fe.st[i] = "todo"

for_each_complete == \A i \in DOMAIN fe.st : fe.st[i] = "done"

\* An invocation of the functor evaluates the search for its element.
Invoke(i) ==
    /\ pc = "for_each"
    /\ for_each_ready(i)
    /\ fe' = [fe EXCEPT !.st[i] = "eval", !.local[i] = <<functor_eval(zip(i))>>]
    /\ acc' = [acc EXCEPT !.rd[i] = @ \cup functor_reads(zip(i))]
    /\ UNCHANGED <<begin, comp, mem, alloc, call, pc, ret, er, ops>>

\* The invocation stores its result through the tuple's second component.
Store(i) ==
    /\ pc = "for_each"
    /\ i \in DOMAIN fe.st
    /\ fe.st[i] = "eval"
    /\ mem' = functor_store(zip(i), fe.local[i][1])
    /\ fe' = [fe EXCEPT !.st[i] = "done"]
    /\ acc' = [acc EXCEPT !.wr[i] = @ \cup {<<fe.dst, functor_target(zip(i))>>},
                          !.stores[functor_target(zip(i))] = @ + 1]
    /\ UNCHANGED <<begin, comp, alloc, call, pc, ret, er, ops>>

\* return output + thrust::distance(values_begin, values_end)
vector_result == fe.n

\* for_each has invoked the functor on every element: detail::binary_search
\* returns, to the public vector entry point or to the scalar implementation.
VectorReturn ==
    /\ pc = "for_each"
    /\ for_each_complete
    /\ IF call.kind = "vector"
          THEN pc' = "done" /\ ret' = <<vector_result>>
          ELSE pc' = "s_read" /\ ret' = ret
    /\ fe' = NoForEach
    /\ UNCHANGED <<begin, comp, mem, alloc, call, er, acc, ops>>

\* Public vector entry points lower_bound / upper_bound / binary_search with
\* a comparator, called on some queries q and an output buffer of the caller:
\* detail::binary_search(begin, end, values_begin, values_end, output, comp, f()).
VectorCall ==
    /\ pc = "idle"
    /\ \E f \in Functions, q \in QueryBatches :
           /\ call' = [kind |-> "vector", f |-> f, value |-> 0]
           /\ mem' = [mem EXCEPT !.vals = q, !.out = OutputFor(q)]
           /\ fe' = for_each_begin("vals", "out", f, distance(q))
           /\ acc' = access_begin(distance(q), ArrLen(OutputFor(q)))
    /\ pc' = "for_each"
    /\ UNCHANGED <<begin, comp, alloc, ret, er, ops>>

----------------------------------------------------------------------------
\* Scalar implementation: detail::binary_search<OutputType>(begin, end, value, comp, func).

Temporaries == {"d_value", "d_output"}

\* Public scalar entry points lower_bound / upper_bound / binary_search with
\* a comparator.
ScalarCall ==
    /\ pc = "idle"
    /\ \E f \in Functions, v \in Values :
           call' = [kind |-> "scalar", f |-> f, value |-> v]
    /\ pc' = "s_alloc_value"
    /\ UNCHANGED <<begin, comp, mem, alloc, fe, ret, er, acc, ops>>

\* The caller asks the scalar form for the value it has just searched for
\* with the vector form of the same operation on a one-element batch.
ScalarCallAfterVector ==
    /\ pc = "done"
    /\ call.kind = "vector"
    /\ distance(mem.vals) = 1
    /\ call' = [kind |-> "scalar", f |-> call.f, value |-> mem.vals[0]]
    /\ pc' = "s_alloc_value"
    /\ ret' = <<>>
    /\ UNCHANGED <<begin, comp, mem, alloc, fe, er, acc, ops>>

\* temporary_array<T,Space> d_value(1): storage for one T, not yet assigned,
\* holding any value.
AllocValue ==
    /\ pc = "s_alloc_value"
    /\ \E garbage \in Values : mem' = [mem EXCEPT !.d_value = [k \in {0} |-> garbage]]
    /\ alloc' = alloc \cup {"d_value"}
    /\ acc' = [acc EXCEPT !.acquired = @ \cup {"d_value"}]
    /\ pc' = "s_alloc_output"
    /\ UNCHANGED <<begin, comp, call, fe, ret, er, ops>>

\* temporary_array<OutputType,Space> d_output(1)
AllocOutput ==
    /\ pc = "s_alloc_output"
    /\ mem' = [mem EXCEPT !.d_output = [k \in {0} |-> <<>>]]
    /\ alloc' = alloc \cup {"d_output"}
    /\ acc' = [acc EXCEPT !.acquired = @ \cup {"d_output"}]
    /\ pc' = "s_copy"
    /\ UNCHANGED <<begin, comp, call, fe, ret, er, ops>>

\* A faulty scalar implementation: the value is never copied into d_value.
CopyAndSearch_no_copy ==
    /\ pc = "s_copy"
    /\ fe' = [src |-> "d_value", dst |-> "d_output", f |-> call.f, n |-> 1,
              st |-> [i \in {0} |-> "todo"], local |-> [i \in {0} |-> <<>>]]
    /\ acc' = [acc EXCEPT !.rd = [i \in {0} |-> {}], !.wr = [i \in {0} |-> {}],
                          !.stores = [k \in {0} |-> 0]]
    /\ pc' = "for_each"
    /\ UNCHANGED <<begin, comp, mem, alloc, call, ret, er, ops>>

\* d_value[0] = value, then the call of the vector implementation on
\* [d_value.begin(), d_value.end()) and d_output.begin().
CopyAndSearch ==
    /\ pc = "s_copy"
    /\ mem' = [mem EXCEPT !.d_value[0] = call.value]
    /\ fe' = for_each_begin("d_value", "d_output", call.f, distance(mem.d_value))
    /\ acc' = [access_begin(distance(mem.d_value), ArrLen(mem.d_output)) EXCEPT
                  !.stale = @ \/ ~({"d_value", "d_output"} \subseteq alloc)]
    /\ pc' = "for_each"
    /\ UNCHANGED <<begin, comp, alloc, call, ret, er, ops>>

\* return d_output[0]: the return value is read from the temporary.
ScalarRead ==
    /\ pc = "s_read"
    /\ ret' = IF 0 \in DOMAIN mem.d_output THEN mem.d_output[0] ELSE <<>>
    /\ acc' = [acc EXCEPT !.stale = @ \/ "d_output" \notin alloc]
    /\ pc' = "s_release"
    /\ UNCHANGED <<begin, comp, mem, alloc, call, fe, er, ops>>

\* The temporaries' destructors: storage goes back to the allocator.
release == [mem EXCEPT !.d_value = <<>>, !.d_output = <<>>]

\* Leaving the scope of d_value and d_output on the normal path.
ScalarRelease ==
    /\ pc = "s_release"
    /\ mem' = release
    /\ alloc' = alloc \ Temporaries
    /\ acc' = [acc EXCEPT !.freed = @ \cup (alloc \cap Temporaries)]
    /\ pc' = "s_returned"
    /\ UNCHANGED <<begin, comp, call, fe, ret, er, ops>>

\* A failure propagates out of for_each (the comparator, the backend), which
\* is abandoned, or, in the scalar implementation, out of an allocation, of
\* the copy or of the read of the result.  It leaves a vector entry point at
\* once and unwinds the scalar implementation first.
Throw ==
    /\ pc \in {"s_alloc_value", "s_alloc_output", "s_copy", "for_each", "s_read"}
    /\ pc' = IF call.kind = "vector" THEN "failed" ELSE "s_unwind"
    /\ ret' = <<>>
    /\ fe' = NoForEach
    /\ acc' = [acc EXCEPT !.rd = <<>>, !.wr = <<>>, !.stores = <<>>]
    /\ UNCHANGED <<begin, comp, mem, alloc, call, er, ops>>

\* A faulty scalar implementation: the failure leaves the entry point with the
\* temporaries still acquired.
ScalarUnwind_leak ==
    /\ pc = "s_unwind"
    /\ pc' = "failed"
    /\ UNCHANGED <<begin, comp, mem, alloc, call, fe, ret, er, acc, ops>>

\* Stack unwinding through the scalar implementation destroys the
\* temporaries constructed so far; the failure leaves the entry point.
ScalarUnwind ==
    /\ pc = "s_unwind"
    /\ mem' = release
    /\ alloc' = alloc \ Temporaries
    /\ acc' = [acc EXCEPT !.freed = @ \cup (alloc \cap Temporaries)]
    /\ pc' = "failed"
    /\ UNCHANGED <<begin, comp, call, fe, ret, er, ops>>

----------------------------------------------------------------------------
\* Public scalar entry points.

\* lower_bound / upper_bound: begin + detail::binary_search<difference_type>(...)
\* binary_search:             detail::binary_search<bool>(...)
scalar_result(f, r) == IF f = "bsf" THEN r ELSE begin + r

ScalarReturn ==
    /\ pc = "s_returned"
    /\ call.kind = "scalar"
    /\ ret' = <<scalar_result(call.f, ret[1])>>
    /\ pc' = "done"
    /\ UNCHANGED <<begin, comp, mem, alloc, call, fe, er, acc, ops>>

\* equal_range(first, last, value, comp):
\*   lb = thrust::lower_bound(first, last, value, comp);
EqualRangeCall ==
    /\ pc = "idle"
    /\ \E v \in Values : call' = [kind |-> "equal_range", f |-> "lbf", value |-> v]
    /\ er' = [phase |-> 1, lb |-> 0]
    /\ pc' = "s_alloc_value"
    /\ UNCHANGED <<begin, comp, mem, alloc, fe, ret, acc, ops>>

\* A faulty equal_range: the second search is a lower_bound again.
EqualRangeUpper_lower_again ==
    /\ pc = "s_returned"
    /\ call.kind = "equal_range"
    /\ er.phase = 1
    /\ er' = [phase |-> 2, lb |-> begin + ret[1]]
    /\ ret' = <<>>
    /\ acc' = [acc EXCEPT !.acquired = {}, !.freed = {}]
    /\ pc' = "s_alloc_value"
    /\ UNCHANGED <<begin, comp, mem, alloc, call, fe, ops>>

\*   ub = thrust::upper_bound(first, last, value, comp);
EqualRangeUpper ==
    /\ pc = "s_returned"
    /\ call.kind = "equal_range"
    /\ er.phase = 1
    /\ er' = [phase |-> 2, lb |-> scalar_result("lbf", ret[1])]
    /\ call' = [call EXCEPT !.f = "ubf"]
    /\ ret' = <<>>
    /\ acc' = [acc EXCEPT !.acquired = {}, !.freed = {}]
    /\ pc' = "s_alloc_value"
    /\ UNCHANGED <<begin, comp, mem, alloc, fe, ops>>

\*   return thrust::make_pair(lb, ub);
make_pair(lb, ub) == <<lb, ub>>

EqualRangeReturn ==
    /\ pc = "s_returned"
    /\ call.kind = "equal_range"
    /\ er.phase = 2
    /\ ret' = make_pair(er.lb, scalar_result("ubf", ret[1]))
    /\ pc' = "done"
    /\ UNCHANGED <<begin, comp, mem, alloc, call, fe, er, acc, ops>>

----------------------------------------------------------------------------
Next ==
    \/ VectorCall
    \/ \E i \in 0..(MaxQueries - 1) : Invoke(i)
    \/ \E i \in 0..(MaxQueries - 1) : Store(i)
    \/ VectorReturn
    \/ ScalarCall
    \/ ScalarCallAfterVector
    \/ AllocValue
    \/ AllocOutput
    \/ CopyAndSearch
    \/ ScalarRead
    \/ ScalarRelease
    \/ Throw
    \/ ScalarUnwind
    \/ ScalarReturn
    \/ EqualRangeCall
    \/ EqualRangeUpper
    \/ EqualRangeReturn

Spec == Init /\ [][Next]_vars

----------------------------------------------------------------------------
\* The operation variants applied on their own: lbf(), ubf() and bsf() are
\* called with (begin, end, value, comp) for one query value, in any order.

InitOps == InitWith(MaxSeqLen)

OpsQuery ==
    /\ pc = "idle"
    /\ \E v \in Values : ops' = [NoOps EXCEPT !.value = v]
    /\ pc' = "ops"
    /\ UNCHANGED <<begin, comp, mem, alloc, call, fe, ret, er, acc>>

ApplyLbf ==
    /\ pc = "ops"
    /\ ops.lbf = <<>>
    /\ ops' = [ops EXCEPT !.lbf = <<lbf(begin, end, ops.value, comp)>>]
    /\ UNCHANGED <<begin, comp, mem, alloc, call, pc, fe, ret, er, acc>>

ApplyUbf ==
    /\ pc = "ops"
    /\ ops.ubf = <<>>
    /\ ops' = [ops EXCEPT !.ubf = <<ubf(begin, end, ops.value, comp)>>]
    /\ UNCHANGED <<begin, comp, mem, alloc, call, pc, fe, ret, er, acc>>

ApplyBsf ==
    /\ pc = "ops"
    /\ ops.bsf = <<>>
    /\ ops' = [ops EXCEPT !.bsf = <<bsf(begin, end, ops.value, comp)>>,
                          !.derefs = bsf_derefs(begin, end, ops.value, comp)]
    /\ UNCHANGED <<begin, comp, mem, alloc, call, pc, fe, ret, er, acc>>

NextOps ==
    \/ OpsQuery
    \/ ApplyLbf
    \/ ApplyUbf
    \/ ApplyBsf

SpecOps == InitOps /\ [][NextOps]_vars

----------------------------------------------------------------------------
\* Properties.

VectorDone == pc = "done" /\ call.kind = "vector"

ScalarDone == pc = "done" /\ call.kind = "scalar"

\* The scalar form has returned for the one query of the vector call before it.
ScalarAfterVectorDone == ScalarDone /\ distance(mem.vals) = 1

SeqLocations == {<<"seq", k>> : k \in DOMAIN mem.seq}

\* The number of elements of the Sequence equivalent to v under comp.
RunLength(v) == Cardinality({k \in DOMAIN mem.seq : Equivalent(comp, mem.seq[k], v)})

AllApplied == pc = "ops" /\ ops.lbf # <<>> /\ ops.ubf # <<>> /\ ops.bsf # <<>>

\* C1: once the vector implementation has returned, every output[i] is
\* func(begin, end, queries[i], comp), whatever the order and interleaving
\* in which for_each ran the invocations of the functor.
C1_BatchContract ==
    VectorDone =>
        /\ DOMAIN mem.vals = 0..(distance(mem.vals) - 1)
        /\ \A i \in DOMAIN mem.vals :
               mem.out[i] = <<func(call.f, begin, end, mem.vals[i], comp)>>

C1_Witness ==
    /\ VectorDone
    /\ distance(mem.vals) = 2
    /\ mem.vals[0] # mem.vals[1]
    /\ mem.out[0] # mem.out[1]
    /\ mem.seq # <<>>

\* C2: the scalar form designates the same position (lower_bound,
\* upper_bound) or gives the same answer (binary_search) as entry 0 of the
\* vector form on the one-element batch [v].
C2_ScalarAgreesWithBatch ==
    ScalarAfterVectorDone =>
        /\ mem.vals[0] = call.value
        /\ mem.out[0] # <<>>
        /\ IF call.f = "bsf"
              THEN ret = mem.out[0]
              ELSE ret[1] - begin = mem.out[0][1]

C2_Witness ==
    /\ ScalarAfterVectorDone
    /\ call.f = "ubf"
    /\ call.value = MaxVal
    /\ mem.out[0][1] = 2

\* C3: bsf returns true iff the offsets returned by lbf and ubf differ.
C3_MembershipIffRangeNonEmpty ==
    AllApplied => (ops.bsf[1] <=> (ops.lbf[1] # ops.ubf[1]))

C3_Witness ==
    /\ AllApplied
    /\ ops.bsf[1]
    /\ \A k \in DOMAIN mem.seq : mem.seq[k] # ops.value

\* C4: ubf - lbf is the number of elements equivalent to the value, lbf is
\* the first position of that run and ubf the position just past its last
\* element.
C4_DuplicateRun ==
    (pc = "ops" /\ ops.lbf # <<>> /\ ops.ubf # <<>>) =>
        /\ ops.ubf[1] - ops.lbf[1] = RunLength(ops.value)
        /\ ops.lbf[1] <= ops.ubf[1]
        /\ \A k \in DOMAIN mem.seq :
               Equivalent(comp, mem.seq[k], ops.value)
                   <=> (ops.lbf[1] <= k /\ k < ops.ubf[1])

C4_Witness ==
    /\ pc = "ops" /\ ops.lbf # <<>> /\ ops.ubf # <<>>
    /\ ops.ubf[1] - ops.lbf[1] = 3
    /\ ops.lbf[1] = 1
    /\ ArrLen(mem.seq) = 4
    /\ comp = "less"

\* C5: equal_range returns the pair (lower_bound, upper_bound) of the value,
\* from two searches through the scalar implementation.
C5_EqualRangePair ==
    (pc = "done" /\ call.kind = "equal_range") =>
        /\ er.phase = 2
        /\ ret = <<begin + lbf(begin, end, call.value, comp),
                   begin + ubf(begin, end, call.value, comp)>>

C5_Witness ==
    /\ pc = "done" /\ call.kind = "equal_range"
    /\ ret[1] = begin + 1
    /\ ret[2] = begin + 2

\* C6: on an empty Sequence lower_bound and upper_bound give the begin
\* position and binary_search gives false, in the vector and in the scalar
\* form, and no invocation reads an element of the Sequence.
C6_EmptySequence ==
    mem.seq = <<>> =>
        /\ VectorDone =>
               \A i \in DOMAIN mem.vals :
                   mem.out[i] = IF call.f = "bsf" THEN <<FALSE>> ELSE <<0>>
        /\ ScalarDone => ret = IF call.f = "bsf" THEN <<FALSE>> ELSE <<begin>>
        /\ \A i \in DOMAIN acc.rd : \A loc \in acc.rd[i] : loc[1] # "seq"

C6_Witness ==
    /\ mem.seq = <<>>
    /\ ScalarAfterVectorDone
    /\ call.f = "bsf"
    /\ call.value = MaxVal

\* C7: d_value and d_output are both acquired while the vector
\* implementation runs inside the scalar implementation, every exit (return
\* or propagated failure) has released whatever was acquired, and no
\* released buffer is ever accessed (the result is read before the release).
C7_TemporariesScoped ==
    /\ (pc = "for_each" /\ call.kind # "vector") => alloc = Temporaries
    /\ pc \in {"idle", "s_returned", "done", "failed"} =>
           alloc = {} /\ acc.freed = acc.acquired
    /\ pc \in {"s_release", "s_returned"} => ret # <<>>
    /\ ~acc.stale
    /\ alloc \subseteq Temporaries
    /\ \A b \in Temporaries : b \notin alloc => mem[b] = <<>>

C7_Witness ==
    /\ pc = "failed"
    /\ call.kind = "scalar"
    /\ acc.freed = Temporaries
    /\ alloc = {}

\* C8: a vector call never changes the Sequence or the queries, stores only
\* to output slots [0, N), and with no queries stores nothing and returns
\* the output position it was given.
C8_Step ==
    /\ mem'.seq = mem.seq
    /\ pc # "idle" => mem'.vals = mem.vals
    /\ \A k \in DOMAIN mem'.out : k >= distance(mem'.vals) => mem'.out[k] = <<>>
    /\ (pc' = "done" /\ call'.kind = "vector") => ret' = <<distance(mem'.vals)>>
    /\ (pc' = "done" /\ call'.kind = "vector" /\ distance(mem'.vals) = 0) =>
           ret' = <<0>> /\ mem'.out = OutputFor(<<>>)

C8_Frame == [][C8_Step]_vars

C8_Witness ==
    /\ VectorDone
    /\ distance(mem.vals) = 2
    /\ mem.out[0] # <<>> /\ mem.out[1] # <<>>
    /\ mem.out[2] = <<>>

\* C9: invocation i reads only the Sequence and queries[i] and stores only
\* to output[i]; no slot is stored to twice or by two invocations, no
\* invocation reads what another stores, and at the end every slot in [0, N)
\* has been stored to exactly once.
C9_InvocationsIndependent ==
    (pc = "for_each" \/ VectorDone) =>
        LET src == IF call.kind = "vector" THEN "vals" ELSE "d_value"
            dst == IF call.kind = "vector" THEN "out" ELSE "d_output"
        IN  /\ \A i \in DOMAIN acc.rd : acc.rd[i] \subseteq {<<src, i>>} \cup SeqLocations
            /\ \A i \in DOMAIN acc.wr : acc.wr[i] \subseteq {<<dst, i>>}
            /\ \A i, j \in DOMAIN acc.wr :
                   i # j => acc.wr[i] \cap acc.wr[j] = {} /\ acc.rd[i] \cap acc.wr[j] = {}
            /\ \A k \in DOMAIN acc.stores : acc.stores[k] <= 1
            /\ VectorDone =>
                   \A k \in DOMAIN acc.stores :
                       acc.stores[k] = IF k < distance(mem.vals) THEN 1 ELSE 0

C9_Witness ==
    /\ pc = "for_each"
    /\ call.kind = "vector"
    /\ fe.n = 2
    /\ fe.st[0] = "eval" /\ fe.st[1] = "done"
    /\ <<"vals", 0>> \in acc.rd[0]
    /\ acc.stores[1] = 1 /\ acc.stores[0] = 0

\* C10: bsf returns true exactly when the position found by lower_bound is
\* not end and the element there is equivalent to the value (neither is
\* ordered before the other), and bsf never dereferences end.
C10_MembershipTest ==
    (pc = "ops" /\ ops.bsf # <<>>) =>
        LET p == scalar_lower_bound(begin, end, ops.value, comp)
        IN  /\ ops.bsf[1] <=> (p # end /\ Equivalent(comp, dereference(p), ops.value))
            /\ end \notin ops.derefs
            /\ ops.derefs \subseteq begin..(end - 1)

C10_Witness ==
    /\ pc = "ops" /\ ops.bsf # <<>>
    /\ mem.seq # <<>>
    /\ scalar_lower_bound(begin, end, ops.value, comp) = end
    /\ ~ops.bsf[1]

=============================================================================
